---- MODULE Spec2Model ----
(***************************************************************************)
(* muttlib.gcd: TimeRangeConfiguration (a validated time window with a     *)
(* reporting granularity) and AttributeHelperMixin (lazily initialised     *)
(* per-instance metrics mapping and artifacts list).                       *)
(*                                                                         *)
(* A datetime is a record [day, hour, minute, second]; day is a day        *)
(* number, so "x days earlier" is a subtraction on the day field.  A       *)
(* Python dict is a function whose DOMAIN is its key set; a Python list is *)
(* a sequence.  Containers live in two heaps (dicts, lists) and are held   *)
(* by reference, as in Python.                                             *)
(***************************************************************************)
EXTENDS Integers, Sequences, FiniteSets, TLC

VARIABLES
    obj,    \* obj[o]: the attributes of instance o and how its construction ended
    dicts,  \* heap of dict objects: reference -> contents
    lists,  \* heap of list objects: reference -> contents
    got,    \* the references the caller holds from its latest get_metrics / get_artifacts
    last,   \* the most recent call: [op, self]
    hist    \* history: constructor arguments, the deriver's triple, paths logged

vars == <<obj, dicts, lists, got, last, hist>>

\* ------------------------------------------------------------------ bounds
MaxWindow == 2
MaxArtifacts == 2

\* ------------------------------------------------------------- input sets
Objs == {"o1", "o2"}

HourRange == 0 .. 23

DateTime(d, h, m, s) == [day |-> d, hour |-> h, minute |-> m, second |-> s]

\* pd.to_datetime('2019-07-01'): day number 18078, midnight.
ExampleEndDate == DateTime(18078, 0, 0, 0)

EndDates == { DateTime(18078, h, m, s) : h \in {0, 12}, m \in {0, 30}, s \in {0, 59} }

Windows == -1 .. MaxWindow

EndHours == {0, 6, 12, 23, 24}

Args(e, tw, fw, g, eh) ==
    [end_date |-> e, forecast_train_window |-> tw, forecast_future_window |-> fw,
     time_granularity |-> g, end_hour |-> eh]

\* TimeRangeConfiguration(end_date, 365*4, 365, 'M')
ExampleArgs == Args(ExampleEndDate, 365 * 4, 365, "M", 0)

Keys == {"a", "b"}
Vals == {1, 2}
Paths == {"x", "y"}

\* ---------------------------------------------------------------- datetime
\* a <= b on datetimes (lexicographic on day, hour, minute, second).
DateLE(a, b) ==
    \/ a.day < b.day
    \/ a.day = b.day /\ a.hour < b.hour
    \/ a.day = b.day /\ a.hour = b.hour /\ a.minute < b.minute
    \/ a.day = b.day /\ a.hour = b.hour /\ a.minute = b.minute /\ a.second <= b.second

\* datetime.replace(hour=h): only the hour field changes.
replace_hour_all(dt, h) == [dt EXCEPT !.hour = h, !.minute = 0, !.second = 0]
replace_hour(dt, h) == [dt EXCEPT !.hour = h]

\* The date-window deriver: start is train_window days before end, future is
\* future_window days after it; the time of day is kept.
create_forecaster_dates(end_date, forecast_train_window, forecast_future_window) ==
    [sd |-> [end_date EXCEPT !.day = @ - forecast_train_window],
     ed |-> end_date,
     fd |-> [end_date EXCEPT !.day = @ + forecast_future_window]]

\* ---------------------------------------------------------------- exceptions
NoExc == [type |-> "none", raised_by |-> "none", msg |-> "none"]
Exc(t, by, m) == [type |-> t, raised_by |-> by, msg |-> m]

\* ------------------------------------------------- TimeRangeConfiguration
HOURLY_TIME_GRANULARITY == "H"
DAILY_TIME_GRANULARITY == "D"
WEEKLY_TIME_GRANULARITY == "W"
MONTHLY_TIME_GRANULARITY == "M"

TIME_GRANULARITY_NAME_MAP ==
    (HOURLY_TIME_GRANULARITY :> "hourly") @@ (DAILY_TIME_GRANULARITY :> "daily")
    @@ (WEEKLY_TIME_GRANULARITY :> "weekly") @@ (MONTHLY_TIME_GRANULARITY :> "monthly")

TIME_GRANULARITIES == DOMAIN TIME_GRANULARITY_NAME_MAP

GranularityCodes == TIME_GRANULARITIES \cup {"Y", "hourly"}

CtorArgs ==
    { Args(e, tw, fw, g, eh) :
        e \in EndDates, tw \in Windows, fw \in Windows,
        g \in GranularityCodes, eh \in EndHours }
    \cup {ExampleArgs}

NoDate == DateTime(0, 0, 0, 0)

\* An instance on which no attribute has been set.
NoObject ==
    [status |-> "new", exc |-> NoExc,
     _start_date |-> NoDate, _end_date |-> NoDate, _future_date |-> NoDate,
     _forecast_train_window |-> 0, _forecast_future_window |-> 0,
     _time_granularity |-> "", _time_granularity_name |-> "",
     _metrics |-> {}, _artifacts |-> {}]

\* Validate current configuration: the exception raised, or NoExc.
validate_strict(self) ==
    IF ~(DateLE(self._start_date, self._end_date) /\ self._start_date # self._end_date)
    THEN Exc("ValueError", "_validate_construction", "Bad dates passed. Start, end")
    ELSE IF ~DateLE(self._end_date, self._future_date)
    THEN Exc("ValueError", "_validate_construction", "Bad dates passed. End, future")
    ELSE NoExc
_validate_construction(self) ==
    IF ~DateLE(self._start_date, self._end_date)
    THEN Exc("ValueError", "_validate_construction", "Bad dates passed. Start, end")
    ELSE IF ~DateLE(self._end_date, self._future_date)
    THEN Exc("ValueError", "_validate_construction", "Bad dates passed. End, future")
    ELSE IF self._time_granularity \notin TIME_GRANULARITIES
    THEN Exc("ValueError", "_validate_construction", "Bad time granularity passed")
    ELSE NoExc

\* TimeRangeConfiguration.__init__: [exc, self].  An exception leaves no instance.
__init__(a) ==
    LET d == create_forecaster_dates(a.end_date, a.forecast_train_window,
                                     a.forecast_future_window)
    IN  IF a.end_hour \notin HourRange
        THEN [exc |-> Exc("ValueError", "replace", "hour must be in 0..23"),
              self |-> NoObject]
        ELSE
        LET s1 == [NoObject EXCEPT
                      !._start_date = d.sd,
                      !._end_date = replace_hour(d.ed, a.end_hour),
                      !._future_date = d.fd,
                      !._forecast_train_window = a.forecast_train_window,
                      !._forecast_future_window = a.forecast_future_window,
                      !._time_granularity = a.time_granularity]
        IN  IF a.time_granularity \notin DOMAIN TIME_GRANULARITY_NAME_MAP
            THEN [exc |-> Exc("KeyError", "TIME_GRANULARITY_NAME_MAP", a.time_granularity),
                  self |-> NoObject]
            ELSE
            LET s2 == [s1 EXCEPT !._time_granularity_name =
                                    TIME_GRANULARITY_NAME_MAP[a.time_granularity]]
                e  == _validate_construction(s2)
            IN  IF e # NoExc
                THEN [exc |-> e, self |-> NoObject]
                ELSE [exc |-> NoExc, self |-> [s2 EXCEPT !.status = "constructed"]]

\* Properties (read-only accessors).
forecast_future_window(o) == obj[o]._forecast_future_window
forecast_train_window(o) == obj[o]._forecast_train_window
start_date(o) == obj[o]._start_date
end_date(o) == obj[o]._end_date
future_date(o) == obj[o]._future_date
time_granularity(o) == obj[o]._time_granularity
time_granularity_name(o) == obj[o]._time_granularity_name

\* Granularity predicates.
is_hourly(o) == time_granularity(o) = HOURLY_TIME_GRANULARITY
is_daily(o) == time_granularity(o) = DAILY_TIME_GRANULARITY
is_weekly_daily(o) == time_granularity(o) = DAILY_TIME_GRANULARITY
is_weekly(o) == time_granularity(o) = WEEKLY_TIME_GRANULARITY
is_monthly(o) == time_granularity(o) = MONTHLY_TIME_GRANULARITY

Constructed(o) == obj[o].status = "constructed"
Raised(o) == obj[o].status = "raised"

NoHist == [args |-> ExampleArgs,
           derived |-> [sd |-> NoDate, ed |-> NoDate, fd |-> NoDate],
           logged |-> <<>>]

HistOf(a) ==
    [args |-> a,
     derived |-> create_forecaster_dates(a.end_date, a.forecast_train_window,
                                         a.forecast_future_window),
     logged |-> <<>>]

\* o = TimeRangeConfiguration(**a)
Construct(o, a) ==
    /\ obj[o].status = "new"
    /\ LET r == __init__(a)
       IN  obj' = [obj EXCEPT ![o] =
                      IF r.exc = NoExc THEN r.self
                      ELSE [NoObject EXCEPT !.status = "raised", !.exc = r.exc]]
    /\ hist' = [hist EXCEPT ![o] = HistOf(a)]
    /\ last' = [op |-> "__init__", self |-> o]
    /\ UNCHANGED <<dicts, lists, got>>

\* A call of a read-only property or predicate: nothing but the call record changes.
Pure(o, name) ==
    /\ Constructed(o)
    /\ last' = [op |-> name, self |-> o]
    /\ UNCHANGED <<obj, dicts, lists, got, hist>>

Get_forecast_future_window(o) == Pure(o, "forecast_future_window")
Get_forecast_train_window(o) == Pure(o, "forecast_train_window")
Get_start_date(o) == Pure(o, "start_date")
Get_end_date(o) == Pure(o, "end_date")
Get_future_date(o) == Pure(o, "future_date")
Get_time_granularity(o) == Pure(o, "time_granularity")
Get_time_granularity_name(o) == Pure(o, "time_granularity_name")
Call_is_hourly(o) == Pure(o, "is_hourly")
Call_is_daily(o) == Pure(o, "is_daily")
Call_is_weekly(o) == Pure(o, "is_weekly")
Call_is_monthly(o) == Pure(o, "is_monthly")

Queries(o) ==
    \/ Get_forecast_future_window(o)
    \/ Get_forecast_train_window(o)
    \/ Get_start_date(o)
    \/ Get_end_date(o)
    \/ Get_future_date(o)
    \/ Get_time_granularity(o)
    \/ Get_time_granularity_name(o)
    \/ Call_is_hourly(o)
    \/ Call_is_daily(o)
    \/ Call_is_weekly(o)
    \/ Call_is_monthly(o)

\* --------------------------------------------------- AttributeHelperMixin
EmptyDict == [k \in {} |-> 0]
EmptyList == <<>>

\* Every dict a caller passes to log_metrics.
Dicts == UNION { [ks -> Vals] : ks \in SUBSET Keys }

\* {k: v}
Single(k, v) == k :> v

\* The reference of a container created by a call on instance o: <<o, n>> with
\* n the least number not in use.
FreshRef(heap, o) ==
    <<o, CHOOSE n \in 1 .. Cardinality(DOMAIN heap) + 1 :
            /\ <<o, n>> \notin DOMAIN heap
            /\ \A k \in 1 .. n - 1 : <<o, k>> \in DOMAIN heap>>

\* The heap with container r created (an existing container is left as it is).
Alloc(heap, r, empty) == IF r \in DOMAIN heap THEN heap ELSE (r :> empty) @@ heap

\* The heap without the containers nothing refers to any more.
Collect(heap, refs) == [r \in (DOMAIN heap) \cap refs |-> heap[r]]

\* if not hasattr(self, name): setattr(self, name, val)
\* Returns the instance; the callers drop the returned val.
_get_init_always(self, name, val) == [self EXCEPT ![name] = {val}]
_get_init(self, name, val) ==
    IF self[name] # {} THEN self ELSE [self EXCEPT ![name] = {val}]

\* self._get_init(name, val={}): the instance and the dict heap afterwards.
_get_init_dict_shared(o, name) ==
    LET val == <<"default", 1>>
    IN  [self |-> _get_init(obj[o], name, val), heap |-> Alloc(dicts, val, EmptyDict)]
_get_init_dict(o, name) ==
    LET val == FreshRef(dicts, o)
    IN  [self |-> _get_init(obj[o], name, val), heap |-> Alloc(dicts, val, EmptyDict)]

\* self._get_init(name, val=[]): the instance and the list heap afterwards.
_get_init_list(o, name) ==
    LET val == FreshRef(lists, o)
    IN  [self |-> _get_init(obj[o], name, val), heap |-> Alloc(lists, val, EmptyList)]

\* dict.update(d): every key of d is set to d's value, the others are kept.
update_keep_existing(m, d) ==
    [k \in (DOMAIN m) \cup (DOMAIN d) |-> IF k \in DOMAIN m THEN m[k] ELSE d[k]]
update(m, d) ==
    [k \in (DOMAIN m) \cup (DOMAIN d) |-> IF k \in DOMAIN d THEN d[k] ELSE m[k]]

\* list.append(x)
append_front(l, x) == <<x>> \o l
append(l, x) == Append(l, x)

Ref(attr) == CHOOSE r \in attr : TRUE
MetricRefs(ob) == UNION { ob[p]._metrics : p \in Objs }
ArtifactRefs(ob) == UNION { ob[p]._artifacts : p \in Objs }

\* What get_metrics() / get_artifacts() on o return now.
MetricsOf(o) == IF obj[o]._metrics = {} THEN EmptyDict ELSE dicts[Ref(obj[o]._metrics)]
ArtifactsOf(o) == IF obj[o]._artifacts = {} THEN EmptyList ELSE lists[Ref(obj[o]._artifacts)]

\* The state change of log_artifact, without the call record.
log_artifact_effect(o, path) ==
    LET i == _get_init_list(o, "_artifacts")
        r == Ref(i.self._artifacts)
        h == [i.heap EXCEPT ![r] = append(@, path)]
        ob == [obj EXCEPT ![o] = i.self]
    IN  /\ obj' = ob
        /\ lists' = Collect(h, ArtifactRefs(ob) \cup got.a)

log_artifact(o, path) ==
    /\ Constructed(o)
    /\ Len(ArtifactsOf(o)) < MaxArtifacts
    /\ log_artifact_effect(o, path)
    /\ hist' = [hist EXCEPT ![o].logged = Append(@, path)]
    /\ last' = [op |-> "log_artifact", self |-> o]
    /\ UNCHANGED <<dicts, got>>

get_artifacts_reset(o) ==
    /\ Constructed(o)
    /\ LET val == FreshRef(lists, o)
           ob == [obj EXCEPT ![o]._artifacts = {val}]
       IN  /\ obj' = ob
           /\ got' = [got EXCEPT !.a = {val}]
           /\ lists' = Collect(Alloc(lists, val, EmptyList), ArtifactRefs(ob) \cup {val})
    /\ last' = [op |-> "get_artifacts", self |-> o]
    /\ UNCHANGED <<dicts, hist>>
get_artifacts(o) ==
    /\ Constructed(o)
    /\ LET i == _get_init_list(o, "_artifacts")
           ob == [obj EXCEPT ![o] = i.self]
       IN  /\ obj' = ob
           /\ got' = [got EXCEPT !.a = i.self._artifacts]
           /\ lists' = Collect(i.heap, ArtifactRefs(ob) \cup i.self._artifacts)
    /\ last' = [op |-> "get_artifacts", self |-> o]
    /\ UNCHANGED <<dicts, hist>>

\* The state change of log_metrics, without the call record.
log_metrics_effect(o, d) ==
    LET i == _get_init_dict(o, "_metrics")
        r == Ref(i.self._metrics)
        h == [i.heap EXCEPT ![r] = update(@, d)]
        ob == [obj EXCEPT ![o] = i.self]
    IN  /\ obj' = ob
        /\ dicts' = Collect(h, MetricRefs(ob) \cup got.m)

log_metrics(o, d) ==
    /\ Constructed(o)
    /\ log_metrics_effect(o, d)
    /\ last' = [op |-> "log_metrics", self |-> o]
    /\ UNCHANGED <<lists, got, hist>>

\* self.log_metrics({k: v})
log_metric(o, k, v) ==
    /\ Constructed(o)
    /\ log_metrics_effect(o, Single(k, v))
    /\ last' = [op |-> "log_metric", self |-> o]
    /\ UNCHANGED <<lists, got, hist>>

get_metrics(o) ==
    /\ Constructed(o)
    /\ LET i == _get_init_dict(o, "_metrics")
           ob == [obj EXCEPT ![o] = i.self]
       IN  /\ obj' = ob
           /\ got' = [got EXCEPT !.m = i.self._metrics]
           /\ dicts' = Collect(i.heap, MetricRefs(ob) \cup i.self._metrics)
    /\ last' = [op |-> "get_metrics", self |-> o]
    /\ UNCHANGED <<lists, hist>>

\* The dicts whose keys are among ks and whose values are among vs.
DictsOver(ks, vs) == UNION { [s -> vs] : s \in SUBSET ks }

\* Any call of the mixin on o, with paths from ps, keys from ks, values from vs.
BagOps(o, ps, ks, vs) ==
    \/ \E path \in ps : log_artifact(o, path)
    \/ get_artifacts(o)
    \/ \E d \in DictsOver(ks, vs) : log_metrics(o, d)
    \/ \E k \in ks, v \in vs : log_metric(o, k, v)
    \/ get_metrics(o)

\* ------------------------------------------------------------ construction
InitCtor ==
    /\ obj = [o \in Objs |-> NoObject]
    /\ dicts = <<>>
    /\ lists = <<>>
    /\ got = [m |-> {}, a |-> {}]
    /\ last = [op |-> "none", self |-> "o1"]
    /\ hist = [o \in Objs |-> NoHist]

NextCtor ==
    \/ \E a \in CtorArgs : Construct("o1", a)
    \/ Queries("o1")

SpecCtor == InitCtor /\ [][NextCtor]_vars

\* ------------------------------------------- one instance, every operation
\* Constructor arguments of the instance the operations are called on.
OneArgs ==
    {ExampleArgs}
    \cup { Args(DateTime(18078, 0, 30, 59), tw, 1, g, 6) : tw \in {0, 1}, g \in {"H", "W"} }

InitOne ==
    /\ \E a \in OneArgs :
          /\ __init__(a).exc = NoExc
          /\ obj = [o \in Objs |-> IF o = "o1" THEN __init__(a).self ELSE NoObject]
          /\ hist = [o \in Objs |-> IF o = "o1" THEN HistOf(a) ELSE NoHist]
    /\ dicts = <<>>
    /\ lists = <<>>
    /\ got = [m |-> {}, a |-> {}]
    /\ last = [op |-> "__init__", self |-> "o1"]

NextOne ==
    \/ BagOps("o1", Paths, Keys, Vals)
    \/ Queries("o1")

SpecOne == InitOne /\ [][NextOne]_vars

\* ------------------------------------------------ two instances, the bag
Init ==
    /\ obj = [o \in Objs |-> __init__(ExampleArgs).self]
    /\ hist = [o \in Objs |-> HistOf(ExampleArgs)]
    /\ dicts = <<>>
    /\ lists = <<>>
    /\ got = [m |-> {}, a |-> {}]
    /\ last = [op |-> "__init__", self |-> "o2"]

Next == \E o \in Objs : BagOps(o, {"x"}, {"a"}, Vals)

Spec == Init /\ [][Next]_vars

\* ------------------------------------------------- claims on construction
\* What the constructor call on "o1" was given, and what the deriver returned.
CtorDone == obj["o1"].status # "new"
A1 == hist["o1"].args
D1 == hist["o1"].derived

ValidWindowsAndGranularity ==
    /\ A1.forecast_train_window >= 0
    /\ A1.forecast_future_window >= 0
    /\ A1.time_granularity \in {"H", "D", "W", "M"}

Ordered(o) == DateLE(start_date(o), end_date(o)) /\ DateLE(end_date(o), future_date(o))

\* C1 (as stated): for every end_date, non-negative windows, granularity in
\* {H, D, W, M} and any hour of the day as end_hour, construction succeeds and
\* start_date <= end_date <= future_date.
C1_AnyEndHourSucceeds ==
    (CtorDone /\ ValidWindowsAndGranularity /\ A1.end_hour \in HourRange)
        => (Constructed("o1") /\ Ordered("o1"))

\* The hour override does not move end_date before start_date (zero train
\* window) or after future_date (zero future window).
OverrideKeepsOrder ==
    /\ A1.end_hour \in HourRange
    /\ A1.forecast_train_window = 0 => A1.end_hour >= A1.end_date.hour
    /\ A1.forecast_future_window = 0 => A1.end_hour <= A1.end_date.hour

\* C1 (amended): for non-negative windows and a granularity in {H, D, W, M},
\* with end_hour in 0..23 not earlier than end_date's hour when the train window
\* is zero and not later than it when the future window is zero (so always when
\* both windows are at least one day), construction succeeds and
\* start_date <= end_date <= future_date.
C1_SucceedsWhenOverrideKeepsOrder ==
    (CtorDone /\ ValidWindowsAndGranularity /\ OverrideKeepsOrder)
        => (Constructed("o1") /\ Ordered("o1"))

\* A degenerate window (both windows zero, end_hour equal to the hour of an
\* end_date at noon) was constructed: start == end == future.
C1_Witness ==
    /\ Constructed("o1")
    /\ A1.forecast_train_window = 0 /\ A1.forecast_future_window = 0
    /\ A1.end_date.hour = 12 /\ A1.end_hour = 12
    /\ start_date("o1") = end_date("o1") /\ end_date("o1") = future_date("o1")

\* C2: for every granularity code outside {H, D, W, M}, construction fails with
\* the validation error (the ValueError a bad date ordering produces), raised by
\* the validation step with a message naming the granularity.
C2_BadGranularityIsValidationError ==
    (CtorDone /\ A1.end_hour \in HourRange /\ A1.time_granularity \notin {"H", "D", "W", "M"})
        => /\ Raised("o1")
           /\ obj["o1"].exc.type = "ValueError"
           /\ obj["o1"].exc.raised_by = "_validate_construction"
           /\ obj["o1"].exc.msg = "Bad time granularity passed"

\* C3: on every constructed instance exactly one of is_hourly, is_daily,
\* is_weekly, is_monthly is true, and it is the one whose code is the
\* time_granularity argument of the constructor.
C3_ExactlyOnePredicate ==
    Constructed("o1") =>
        LET p == ("H" :> is_hourly("o1")) @@ ("D" :> is_daily("o1"))
                 @@ ("W" :> is_weekly("o1")) @@ ("M" :> is_monthly("o1"))
        IN  /\ Cardinality({g \in DOMAIN p : p[g]}) = 1
            /\ A1.time_granularity \in DOMAIN p
            /\ p[A1.time_granularity]

\* is_weekly() was called on an instance built with 'W' and is the true one.
C3_Witness ==
    /\ Constructed("o1") /\ last.op = "is_weekly"
    /\ A1.time_granularity = "W" /\ is_weekly("o1") /\ ~is_daily("o1")

\* C4: on every constructed instance end_date has hour end_hour and differs
\* from the deriver's end date in the hour only; start_date and future_date are
\* the deriver's start and future.
C4_HourOnlyOverride ==
    Constructed("o1") =>
        /\ end_date("o1").hour = A1.end_hour
        /\ end_date("o1").day = D1.ed.day
        /\ end_date("o1").minute = D1.ed.minute
        /\ end_date("o1").second = D1.ed.second
        /\ start_date("o1") = D1.sd
        /\ future_date("o1") = D1.fd

\* Constructed with end_hour = 6 from a deriver end date of 12:30:59: the hour
\* is 6, minute and second are still 30 and 59.
C4_Witness ==
    /\ Constructed("o1") /\ A1.end_hour = 6
    /\ D1.ed.hour = 12 /\ D1.ed.minute = 30 /\ D1.ed.second = 59
    /\ end_date("o1") = DateTime(D1.ed.day, 6, 30, 59)

\* The dates the instance would hold after the hour override.
OverriddenOrderBad ==
    /\ A1.end_hour \in HourRange
    /\ LET e == replace_hour(D1.ed, A1.end_hour)
       IN  ~DateLE(D1.sd, e) \/ ~DateLE(e, D1.fd)

\* C7: for any constructor inputs, a bad ordering after the hour override
\* makes construction raise the validation error and leave no instance; every
\* instance that exists has start_date <= end_date <= future_date and a
\* granularity in {H, D, W, M}.
C7_AllOrNothing ==
    /\ (CtorDone /\ OverriddenOrderBad) =>
           /\ Raised("o1")
           /\ obj["o1"].exc.type = "ValueError"
           /\ obj["o1"].exc.raised_by = "_validate_construction"
    /\ Constructed("o1") =>
           Ordered("o1") /\ time_granularity("o1") \in {"H", "D", "W", "M"}

\* ------------------------------------------------------ claims on the bag
M1 == MetricsOf("o1")
L1 == ArtifactsOf("o1")
MetricWrites == {"log_metric", "log_metrics"}

\* C5: every log_metrics(d) sets each key of d to d's value and keeps every
\* other key; log_metric(k, v) sets k to v and keeps the others; no other call
\* changes what get_metrics() returns, and no key is ever removed.
C5_LastWriteWins ==
    [][ /\ \A d \in Dicts :
              log_metrics("o1", d) =>
                  /\ DOMAIN M1' = (DOMAIN M1) \cup (DOMAIN d)
                  /\ \A k \in DOMAIN d : M1'[k] = d[k]
                  /\ \A k \in (DOMAIN M1) \ (DOMAIN d) : M1'[k] = M1[k]
        /\ \A k \in Keys, v \in Vals :
              log_metric("o1", k, v) =>
                  /\ DOMAIN M1' = (DOMAIN M1) \cup {k}
                  /\ M1'[k] = v
                  /\ \A j \in (DOMAIN M1) \ {k} : M1'[j] = M1[j]
        /\ last'.op \notin MetricWrites => M1' = M1
        /\ DOMAIN M1 \subseteq DOMAIN M1'
      ]_vars

\* get_metrics() holds a overwritten to 2 and b still 1.
C5_Witness ==
    /\ last.op = "log_metric"
    /\ M1 = ("a" :> 2) @@ ("b" :> 1)

\* C6: get_artifacts() is exactly the sequence of the paths logged, in call
\* order, duplicates kept.
C6_ArtifactsInCallOrder == L1 = hist["o1"].logged

\* Two paths were logged, y first, and the artifacts are <<y, x>>.
C6_Witness ==
    /\ last.op = "log_artifact"
    /\ hist["o1"].logged = <<"y", "x">>
    /\ L1 = <<"y", "x">>

\* C8: the first get on an untouched collection returns an empty container;
\* a collection's container, once set, is never replaced; a get leaves the
\* contents as they are and returns that container, so the container a caller
\* holds from an earlier get is the instance's own.
C8_InitialisedOnce ==
    /\ [] /\ got.m # {} => (got.m = obj["o1"]._metrics /\ got.m \subseteq DOMAIN dicts)
          /\ got.a # {} => (got.a = obj["o1"]._artifacts /\ got.a \subseteq DOMAIN lists)
    /\ [][ /\ get_metrics("o1") =>
                 /\ M1' = M1
                 /\ got'.m # {} /\ dicts'[Ref(got'.m)] = M1
                 /\ obj["o1"]._metrics = {} => dicts'[Ref(got'.m)] = EmptyDict
           /\ get_artifacts("o1") =>
                 /\ L1' = L1
                 /\ got'.a # {} /\ lists'[Ref(got'.a)] = L1
                 /\ obj["o1"]._artifacts = {} => lists'[Ref(got'.a)] = EmptyList
           /\ obj["o1"]._metrics # {} => obj'["o1"]._metrics = obj["o1"]._metrics
           /\ obj["o1"]._artifacts # {} => obj'["o1"]._artifacts = obj["o1"]._artifacts
         ]_vars

\* The caller holds the dict of an earlier get_metrics(), and a later
\* log_metric shows in it.
C8_Witness ==
    /\ last.op = "log_metric"
    /\ got.m # {} /\ got.m = obj["o1"]._metrics
    /\ dicts[Ref(got.m)] = ("b" :> 2)
    /\ got.a # {} /\ L1 = <<>>

Fields(o) ==
    <<start_date(o), end_date(o), future_date(o), forecast_train_window(o),
      forecast_future_window(o), time_granularity(o), time_granularity_name(o)>>

\* C9: the seven fields of a constructed instance keep their construction-time
\* values; log_metric / log_metrics leave the artifacts as they are,
\* log_artifact leaves the metrics as they are, and every other call leaves both.
C9_Frame ==
    /\ [](Fields("o1") =
             <<D1.sd, replace_hour(D1.ed, A1.end_hour), D1.fd,
               A1.forecast_train_window, A1.forecast_future_window,
               A1.time_granularity, TIME_GRANULARITY_NAME_MAP[A1.time_granularity]>>)
    /\ [][ /\ Fields("o1")' = Fields("o1")
           /\ last'.op \in MetricWrites => L1' = L1
           /\ last'.op = "log_artifact" => M1' = M1
           /\ last'.op \notin MetricWrites \cup {"log_artifact"} => (M1' = M1 /\ L1' = L1)
         ]_vars

\* After metrics and artifacts were logged, end_date is read from an instance
\* built with end_hour = 6.
C9_Witness ==
    /\ last.op = "end_date"
    /\ M1 = ("a" :> 1) /\ L1 = <<"x", "y">>
    /\ A1.end_hour = 6 /\ end_date("o1").hour = 6

\* C10: two instances never hold the same container, a call on one instance
\* leaves the metrics and artifacts of the other as they are, and each
\* instance's artifacts are the paths logged on it.
C10_Isolation ==
    /\ [] /\ obj["o1"]._metrics \cap obj["o2"]._metrics = {}
          /\ obj["o1"]._artifacts \cap obj["o2"]._artifacts = {}
          /\ \A o \in Objs : ArtifactsOf(o) = hist[o].logged
    /\ [][ \A p \in Objs \ {last'.self} :
              MetricsOf(p)' = MetricsOf(p) /\ ArtifactsOf(p)' = ArtifactsOf(p) ]_vars

\* Both instances have their containers, with different contents.
C10_Witness ==
    /\ obj["o1"]._metrics # {} /\ obj["o2"]._metrics # {}
    /\ MetricsOf("o1") = ("a" :> 1) /\ MetricsOf("o2") = ("a" :> 2)
    /\ obj["o2"]._artifacts # {}
    /\ ArtifactsOf("o1") = <<"x">> /\ ArtifactsOf("o2") = <<>>

====
